---- MODULE Spec2Model ----
EXTENDS Integers, Naturals, Sequences, FiniteSets, TLC

\* ------------------------------------------------------------------
\* Bit-level validity predicate of Worker.ValidatePoWork (lines 173-192)
\* ------------------------------------------------------------------

\* Go's uint8 shift: x << 1 truncated to 8 bits
ShlByte(x) == (x * 2) % 256

\* Result of ValidatePoWork: ok is the bool, err is "nil" or "overrun"
\* ("Buffer overrun: not enough bits in hash").
RECURSIVE ScanBytes(_, _, _)
RECURSIVE ScanBits(_, _, _, _, _)

ScanBits(sum, i, x, b, N) ==
    IF b = 8 THEN ScanBytes(sum, i + 1, N)
    ELSE IF ShlByte(x) \div 2 = x
         THEN IF N - 1 = 0
              THEN [ok |-> TRUE, err |-> "nil"]
              ELSE ScanBits(sum, i, ShlByte(x), b + 1, N - 1)
         ELSE [ok |-> FALSE, err |-> "nil"]

ScanBytes(sum, i, N) ==
    IF i > Len(sum) THEN [ok |-> FALSE, err |-> "overrun"]
    ELSE ScanBits(sum, i, sum[i], 0, N)

\* variant: exhausting the digest reports a plain false
ValidateSumOverrunFalse(sum, difficulty) ==
    LET r == ScanBytes(sum, 1, difficulty)
    IN IF r.err = "overrun" THEN [ok |-> FALSE, err |-> "nil"] ELSE r

ValidateSum(sum, difficulty) == ScanBytes(sum, 1, difficulty)

\* k-th bit of the digest, bytes in order, each byte MSB first
BitAt(sum, k) == (sum[((k - 1) \div 8) + 1] \div (2 ^ (7 - ((k - 1) % 8)))) % 2

FirstBitsZero(sum, n) == \A k \in 1..n : BitAt(sum, k) = 0

\* ------------------------------------------------------------------
\* Specification of the predicate alone: a digest and a difficulty are
\* drawn, then ValidatePoWork's scan is applied.
\* ------------------------------------------------------------------

DigestBytes == {0, 1, 64, 128, 255}
DigestLenV == 2
MaxDiffV == 17

VARIABLES vsum, vdiff, vres
vvars == <<vsum, vdiff, vres>>


\* ------------------------------------------------------------------
\* Candidate construction: msg followed by binary.Write(LittleEndian, int64)
\* ------------------------------------------------------------------

\* 8-byte little-endian two's complement encoding of an int64
RECURSIVE LEBytes(_, _)
LEBytes(n, k) == IF k = 0 THEN <<>> ELSE <<n % 256>> \o LEBytes(n \div 256, k - 1)

LE64(n) == LEBytes(n, 8)

\* The injected hash getters: getHash() returns a fresh hash.Hash on which
\* ValidatePoWork calls Reset, Write(msg), binary.Write(proof) and Sum(nil).
\* "sha512" is the default sha512.New (64-byte digest); "sha256" stands for
\* sha256.New passed to SetHashGetter (32-byte digest). Their digests are
\* tabulated for the candidates msg || LE64(n), n in 0..15, of Msgs.
HashGetters == {"sha512", "sha256"}

Sha512Digests ==
    (<<104, 105, 0, 0, 0, 0, 0, 0, 0, 0>> :> <<96, 96, 16, 121, 208, 110, 28, 13, 212, 209, 163, 163, 254, 229, 134, 108, 86, 231, 57, 15, 129, 152, 192, 191, 211, 194, 135, 48, 16, 66, 8, 22, 135, 151, 90, 194, 194, 109, 33, 254, 137, 151, 104, 141, 166, 244, 98, 9, 154, 121, 162, 186, 172, 204, 166, 198, 131, 139, 102, 148, 136, 2, 247, 161>>) @@
    (<<104, 105, 1, 0, 0, 0, 0, 0, 0, 0>> :> <<207, 196, 58, 68, 178, 201, 82, 89, 151, 8, 105, 57, 6, 98, 67, 73, 95, 71, 88, 230, 23, 11, 119, 47, 151, 143, 250, 93, 27, 40, 152, 179, 35, 47, 53, 244, 14, 65, 149, 11, 69, 228, 197, 239, 229, 226, 209, 218, 235, 197, 103, 27, 111, 178, 70, 153, 32, 132, 8, 196, 200, 139, 115, 125>>) @@
    (<<104, 105, 2, 0, 0, 0, 0, 0, 0, 0>> :> <<216, 69, 220, 253, 244, 247, 116, 102, 140, 120, 100, 253, 148, 16, 71, 127, 205, 231, 218, 240, 64, 106, 231, 80, 83, 105, 215, 78, 210, 170, 60, 83, 34, 132, 1, 80, 247, 189, 84, 227, 142, 163, 54, 121, 78, 142, 72, 195, 158, 27, 46, 224, 174, 142, 209, 118, 43, 17, 237, 147, 96, 194, 129, 83>>) @@
    (<<104, 105, 3, 0, 0, 0, 0, 0, 0, 0>> :> <<143, 142, 169, 113, 157, 243, 125, 206, 85, 244, 226, 8, 133, 222, 17, 148, 16, 110, 241, 179, 113, 20, 207, 240, 91, 192, 97, 180, 117, 61, 97, 82, 37, 2, 244, 32, 56, 0, 216, 45, 166, 160, 17, 167, 125, 153, 18, 75, 82, 187, 42, 118, 207, 227, 221, 61, 194, 112, 254, 56, 95, 233, 113, 160>>) @@
    (<<104, 105, 4, 0, 0, 0, 0, 0, 0, 0>> :> <<141, 199, 91, 124, 75, 147, 86, 82, 100, 241, 148, 252, 167, 129, 80, 127, 201, 142, 228, 198, 73, 12, 71, 45, 5, 48, 56, 153, 102, 60, 93, 251, 24, 136, 25, 64, 197, 104, 81, 215, 231, 165, 33, 79, 152, 211, 169, 234, 61, 19, 150, 23, 109, 190, 154, 217, 200, 115, 190, 109, 187, 165, 165, 224>>) @@
    (<<104, 105, 5, 0, 0, 0, 0, 0, 0, 0>> :> <<177, 1, 200, 15, 31, 198, 204, 31, 122, 64, 186, 108, 82, 127, 239, 192, 25, 247, 70, 190, 165, 210, 74, 0, 202, 160, 149, 145, 152, 187, 236, 98, 39, 254, 94, 191, 22, 169, 211, 88, 220, 255, 69, 200, 67, 6, 134, 48, 241, 177, 200, 8, 77, 14, 44, 3, 62, 126, 237, 236, 234, 149, 66, 16>>) @@
    (<<104, 105, 6, 0, 0, 0, 0, 0, 0, 0>> :> <<141, 201, 207, 128, 249, 48, 111, 224, 131, 164, 223, 192, 106, 239, 192, 190, 33, 19, 160, 217, 51, 228, 95, 17, 247, 237, 210, 11, 145, 61, 78, 153, 183, 246, 1, 28, 12, 253, 127, 120, 136, 228, 121, 237, 156, 100, 92, 6, 189, 133, 70, 246, 110, 46, 20, 139, 61, 88, 65, 236, 244, 173, 85, 37>>) @@
    (<<104, 105, 7, 0, 0, 0, 0, 0, 0, 0>> :> <<3, 78, 120, 241, 211, 95, 121, 175, 72, 129, 99, 78, 84, 234, 27, 116, 26, 250, 74, 73, 207, 22, 69, 253, 46, 26, 64, 79, 127, 2, 191, 248, 220, 101, 106, 220, 226, 197, 195, 184, 52, 29, 123, 96, 43, 165, 107, 127, 69, 178, 136, 79, 71, 78, 85, 171, 250, 77, 231, 148, 144, 158, 53, 134>>) @@
    (<<104, 105, 8, 0, 0, 0, 0, 0, 0, 0>> :> <<125, 215, 73, 137, 99, 23, 173, 105, 94, 143, 12, 177, 161, 4, 38, 43, 80, 109, 247, 103, 193, 194, 190, 234, 112, 129, 54, 158, 124, 114, 227, 17, 149, 110, 242, 207, 249, 60, 61, 59, 62, 158, 111, 168, 245, 103, 62, 231, 52, 166, 195, 216, 149, 121, 220, 71, 237, 168, 90, 111, 92, 93, 6, 203>>) @@
    (<<104, 105, 9, 0, 0, 0, 0, 0, 0, 0>> :> <<48, 123, 10, 153, 15, 33, 160, 160, 149, 245, 153, 177, 191, 149, 187, 40, 239, 24, 149, 216, 100, 45, 215, 171, 106, 163, 58, 19, 110, 32, 226, 88, 139, 130, 136, 104, 217, 15, 45, 18, 56, 176, 109, 250, 175, 114, 52, 218, 104, 28, 133, 104, 203, 205, 167, 198, 102, 211, 175, 4, 162, 41, 96, 197>>) @@
    (<<104, 105, 10, 0, 0, 0, 0, 0, 0, 0>> :> <<221, 191, 33, 232, 139, 34, 88, 101, 82, 253, 79, 132, 111, 84, 154, 42, 208, 125, 212, 235, 80, 27, 118, 99, 117, 157, 19, 90, 241, 237, 240, 35, 8, 202, 42, 50, 180, 170, 223, 68, 169, 210, 25, 66, 244, 88, 117, 222, 148, 94, 25, 145, 130, 228, 231, 70, 233, 225, 167, 210, 14, 129, 41, 51>>) @@
    (<<104, 105, 11, 0, 0, 0, 0, 0, 0, 0>> :> <<213, 84, 247, 163, 128, 231, 146, 229, 24, 34, 210, 232, 244, 158, 0, 152, 150, 177, 149, 51, 176, 42, 149, 101, 131, 233, 193, 229, 118, 160, 74, 103, 120, 73, 4, 220, 3, 41, 214, 188, 223, 175, 187, 249, 102, 57, 57, 36, 134, 51, 128, 180, 161, 144, 168, 5, 172, 10, 253, 0, 60, 224, 52, 213>>) @@
    (<<104, 105, 12, 0, 0, 0, 0, 0, 0, 0>> :> <<246, 255, 217, 6, 39, 92, 230, 44, 130, 225, 172, 36, 223, 167, 206, 241, 156, 191, 55, 124, 14, 227, 171, 59, 109, 52, 192, 6, 22, 198, 137, 159, 75, 145, 85, 216, 193, 161, 16, 79, 8, 60, 89, 66, 71, 217, 250, 68, 141, 171, 154, 201, 85, 212, 119, 117, 44, 128, 188, 199, 182, 181, 119, 182>>) @@
    (<<104, 105, 13, 0, 0, 0, 0, 0, 0, 0>> :> <<217, 226, 232, 13, 39, 8, 146, 149, 245, 87, 24, 109, 95, 245, 57, 4, 116, 129, 238, 253, 40, 37, 33, 48, 194, 36, 62, 1, 43, 177, 118, 188, 49, 94, 126, 244, 219, 129, 237, 25, 170, 226, 235, 56, 241, 207, 160, 189, 234, 12, 152, 110, 188, 173, 143, 42, 82, 213, 170, 31, 91, 69, 150, 175>>) @@
    (<<104, 105, 14, 0, 0, 0, 0, 0, 0, 0>> :> <<202, 54, 95, 255, 136, 144, 162, 122, 208, 253, 180, 236, 63, 249, 15, 176, 173, 215, 108, 128, 154, 168, 47, 115, 24, 240, 174, 35, 64, 28, 217, 206, 114, 181, 21, 216, 15, 70, 42, 81, 252, 10, 134, 184, 239, 101, 57, 81, 83, 146, 43, 229, 146, 24, 97, 74, 73, 135, 151, 235, 201, 224, 85, 202>>) @@
    (<<104, 105, 15, 0, 0, 0, 0, 0, 0, 0>> :> <<8, 177, 20, 203, 182, 226, 211, 37, 32, 188, 80, 35, 97, 255, 30, 28, 226, 0, 115, 71, 80, 240, 234, 246, 127, 71, 101, 152, 83, 72, 8, 217, 107, 145, 40, 246, 132, 118, 195, 9, 118, 119, 249, 70, 62, 114, 144, 65, 199, 251, 247, 86, 239, 58, 45, 147, 131, 107, 28, 210, 248, 113, 253, 0>>) @@
    (<<103, 0, 0, 0, 0, 0, 0, 0, 0>> :> <<182, 230, 183, 114, 12, 126, 177, 103, 209, 22, 143, 210, 227, 223, 218, 111, 50, 79, 158, 175, 75, 112, 20, 159, 66, 229, 84, 89, 143, 57, 57, 5, 63, 27, 105, 204, 215, 26, 118, 154, 209, 124, 68, 133, 50, 69, 222, 215, 89, 223, 203, 87, 147, 59, 46, 74, 29, 134, 253, 0, 123, 232, 250, 81>>) @@
    (<<103, 1, 0, 0, 0, 0, 0, 0, 0>> :> <<23, 30, 217, 107, 148, 242, 86, 115, 233, 175, 164, 40, 216, 29, 12, 42, 246, 47, 108, 86, 16, 5, 12, 168, 219, 4, 28, 140, 236, 59, 169, 147, 111, 68, 180, 248, 196, 100, 127, 174, 14, 173, 5, 216, 187, 156, 1, 146, 66, 58, 248, 131, 199, 200, 226, 44, 93, 30, 202, 142, 35, 153, 76, 138>>) @@
    (<<103, 2, 0, 0, 0, 0, 0, 0, 0>> :> <<76, 85, 158, 241, 59, 127, 93, 114, 1, 251, 242, 163, 74, 228, 0, 21, 212, 80, 24, 44, 181, 4, 10, 20, 120, 165, 173, 13, 176, 120, 224, 93, 99, 117, 151, 218, 75, 25, 235, 187, 240, 207, 157, 217, 143, 238, 179, 91, 109, 232, 130, 198, 119, 235, 43, 91, 22, 159, 249, 164, 26, 59, 191, 91>>) @@
    (<<103, 3, 0, 0, 0, 0, 0, 0, 0>> :> <<150, 54, 178, 28, 200, 46, 63, 80, 151, 77, 156, 64, 252, 154, 196, 244, 255, 115, 123, 229, 140, 17, 134, 93, 2, 232, 28, 249, 19, 195, 158, 9, 200, 50, 77, 146, 96, 31, 56, 204, 250, 38, 14, 208, 198, 119, 91, 178, 158, 89, 159, 0, 126, 221, 191, 12, 39, 194, 198, 155, 229, 76, 80, 150>>) @@
    (<<103, 4, 0, 0, 0, 0, 0, 0, 0>> :> <<16, 162, 64, 123, 128, 86, 72, 189, 88, 151, 20, 175, 215, 43, 222, 215, 15, 57, 195, 36, 212, 30, 223, 53, 74, 63, 180, 169, 119, 104, 133, 153, 150, 68, 49, 121, 230, 73, 105, 206, 35, 92, 89, 240, 107, 183, 178, 49, 225, 175, 28, 184, 235, 150, 109, 52, 230, 195, 210, 132, 124, 94, 5, 88>>) @@
    (<<103, 5, 0, 0, 0, 0, 0, 0, 0>> :> <<89, 219, 154, 251, 117, 163, 119, 17, 1, 160, 45, 173, 135, 112, 187, 174, 88, 239, 74, 58, 2, 201, 48, 18, 201, 123, 227, 129, 242, 120, 124, 143, 104, 36, 202, 54, 45, 78, 230, 254, 107, 235, 107, 34, 26, 4, 39, 111, 104, 11, 135, 235, 215, 108, 143, 38, 104, 151, 240, 111, 213, 191, 239, 39>>) @@
    (<<103, 6, 0, 0, 0, 0, 0, 0, 0>> :> <<218, 62, 31, 252, 192, 147, 170, 107, 89, 57, 48, 148, 116, 77, 244, 37, 115, 42, 152, 72, 186, 124, 13, 72, 44, 92, 188, 85, 167, 184, 86, 197, 81, 62, 223, 128, 147, 112, 166, 192, 111, 188, 211, 17, 236, 132, 132, 179, 185, 226, 188, 142, 165, 221, 94, 59, 121, 36, 203, 43, 206, 15, 135, 166>>) @@
    (<<103, 7, 0, 0, 0, 0, 0, 0, 0>> :> <<155, 130, 250, 42, 149, 74, 44, 216, 205, 66, 249, 10, 122, 113, 62, 201, 110, 17, 160, 117, 15, 84, 59, 230, 91, 252, 243, 197, 15, 219, 206, 212, 7, 220, 6, 17, 248, 22, 125, 213, 103, 195, 91, 211, 208, 100, 198, 207, 0, 151, 125, 198, 68, 237, 117, 172, 112, 222, 134, 203, 119, 104, 165, 232>>) @@
    (<<103, 8, 0, 0, 0, 0, 0, 0, 0>> :> <<124, 94, 124, 136, 144, 15, 74, 181, 21, 44, 211, 123, 75, 192, 212, 234, 121, 230, 202, 2, 114, 83, 176, 46, 160, 243, 236, 224, 128, 177, 11, 68, 92, 190, 227, 46, 2, 105, 37, 109, 143, 241, 196, 194, 60, 99, 206, 92, 182, 37, 70, 46, 43, 4, 164, 91, 77, 234, 66, 237, 18, 40, 254, 244>>) @@
    (<<103, 9, 0, 0, 0, 0, 0, 0, 0>> :> <<52, 193, 137, 218, 62, 11, 82, 194, 23, 33, 214, 76, 224, 3, 211, 89, 49, 18, 74, 49, 208, 40, 155, 160, 208, 189, 14, 224, 41, 4, 30, 244, 156, 64, 210, 116, 121, 10, 13, 254, 16, 157, 218, 63, 174, 168, 53, 147, 78, 23, 213, 42, 51, 100, 100, 107, 184, 178, 53, 13, 82, 244, 31, 238>>) @@
    (<<103, 10, 0, 0, 0, 0, 0, 0, 0>> :> <<37, 18, 135, 240, 244, 147, 20, 227, 23, 172, 11, 47, 71, 119, 208, 117, 22, 144, 45, 35, 205, 90, 167, 221, 45, 9, 206, 115, 64, 81, 120, 88, 245, 213, 74, 68, 67, 246, 143, 34, 113, 78, 92, 210, 40, 219, 177, 101, 131, 59, 20, 69, 95, 179, 78, 42, 120, 34, 61, 44, 66, 22, 249, 103>>) @@
    (<<103, 11, 0, 0, 0, 0, 0, 0, 0>> :> <<186, 37, 166, 74, 36, 239, 40, 90, 18, 148, 218, 36, 181, 216, 150, 119, 79, 238, 126, 107, 40, 228, 72, 14, 134, 249, 162, 179, 254, 167, 77, 70, 193, 19, 10, 140, 148, 144, 145, 55, 32, 180, 229, 149, 73, 243, 120, 97, 89, 56, 246, 185, 153, 114, 234, 86, 145, 237, 121, 28, 208, 24, 51, 183>>) @@
    (<<103, 12, 0, 0, 0, 0, 0, 0, 0>> :> <<209, 97, 163, 227, 185, 54, 113, 229, 242, 218, 253, 137, 134, 155, 232, 240, 201, 65, 67, 194, 210, 143, 100, 21, 185, 221, 89, 66, 221, 173, 176, 24, 186, 141, 21, 199, 175, 40, 251, 73, 238, 45, 28, 231, 60, 194, 199, 109, 144, 128, 166, 136, 224, 253, 93, 40, 124, 254, 18, 159, 130, 149, 86, 116>>) @@
    (<<103, 13, 0, 0, 0, 0, 0, 0, 0>> :> <<222, 4, 114, 132, 209, 115, 192, 16, 135, 28, 187, 132, 180, 66, 222, 253, 102, 75, 34, 152, 50, 202, 245, 56, 162, 44, 107, 75, 196, 4, 3, 158, 115, 56, 49, 168, 75, 120, 119, 14, 158, 86, 103, 108, 26, 93, 152, 44, 163, 174, 11, 20, 60, 215, 76, 22, 152, 44, 198, 173, 112, 233, 203, 226>>) @@
    (<<103, 14, 0, 0, 0, 0, 0, 0, 0>> :> <<171, 132, 154, 9, 32, 250, 93, 125, 188, 56, 188, 107, 213, 229, 31, 154, 228, 81, 97, 172, 75, 181, 218, 35, 166, 224, 82, 78, 156, 62, 56, 53, 156, 10, 91, 206, 168, 18, 254, 103, 109, 124, 205, 188, 80, 182, 77, 175, 115, 221, 219, 60, 217, 33, 181, 7, 56, 2, 22, 148, 80, 120, 151, 16>>) @@
    (<<103, 15, 0, 0, 0, 0, 0, 0, 0>> :> <<143, 15, 72, 191, 106, 57, 220, 53, 199, 230, 188, 122, 219, 107, 85, 198, 97, 136, 139, 180, 67, 64, 123, 164, 151, 62, 101, 44, 12, 136, 147, 246, 236, 39, 120, 84, 57, 212, 216, 11, 210, 200, 2, 53, 54, 110, 127, 60, 174, 180, 61, 0, 35, 164, 233, 82, 170, 246, 246, 45, 118, 34, 105, 48>>)

Sha256Digests ==
    (<<104, 105, 0, 0, 0, 0, 0, 0, 0, 0>> :> <<37, 27, 249, 113, 172, 107, 183, 26, 82, 247, 127, 254, 180, 7, 181, 148, 212, 25, 129, 54, 103, 224, 251, 168, 41, 42, 255, 32, 62, 233, 155, 136>>) @@
    (<<104, 105, 1, 0, 0, 0, 0, 0, 0, 0>> :> <<88, 136, 166, 172, 139, 154, 244, 45, 157, 39, 184, 22, 151, 147, 113, 125, 239, 126, 146, 114, 14, 6, 184, 253, 84, 63, 217, 247, 139, 178, 84, 43>>) @@
    (<<104, 105, 2, 0, 0, 0, 0, 0, 0, 0>> :> <<124, 165, 118, 96, 15, 164, 146, 54, 18, 85, 95, 71, 175, 249, 16, 108, 98, 252, 188, 195, 250, 1, 117, 234, 181, 26, 20, 191, 71, 196, 4, 69>>) @@
    (<<104, 105, 3, 0, 0, 0, 0, 0, 0, 0>> :> <<146, 228, 64, 142, 236, 195, 126, 116, 242, 233, 143, 248, 8, 152, 214, 230, 184, 30, 107, 7, 255, 187, 103, 36, 138, 176, 232, 81, 98, 116, 7, 55>>) @@
    (<<104, 105, 4, 0, 0, 0, 0, 0, 0, 0>> :> <<151, 142, 124, 47, 100, 154, 52, 26, 40, 218, 12, 28, 232, 111, 150, 162, 191, 223, 214, 184, 37, 229, 144, 39, 95, 111, 139, 47, 68, 13, 131, 37>>) @@
    (<<104, 105, 5, 0, 0, 0, 0, 0, 0, 0>> :> <<2, 164, 24, 254, 12, 141, 90, 78, 152, 24, 15, 161, 115, 246, 135, 161, 133, 55, 128, 38, 214, 74, 36, 98, 224, 239, 88, 189, 158, 196, 151, 8>>) @@
    (<<104, 105, 6, 0, 0, 0, 0, 0, 0, 0>> :> <<175, 25, 131, 182, 41, 1, 7, 255, 252, 133, 241, 115, 86, 35, 79, 247, 248, 91, 25, 249, 155, 145, 154, 199, 152, 151, 47, 191, 135, 159, 100, 252>>) @@
    (<<104, 105, 7, 0, 0, 0, 0, 0, 0, 0>> :> <<51, 110, 129, 180, 114, 177, 23, 66, 67, 8, 241, 1, 96, 205, 179, 43, 14, 180, 87, 179, 127, 179, 179, 127, 7, 117, 204, 102, 125, 176, 230, 181>>) @@
    (<<104, 105, 8, 0, 0, 0, 0, 0, 0, 0>> :> <<37, 63, 93, 143, 70, 218, 51, 210, 204, 221, 52, 238, 234, 217, 69, 66, 13, 93, 236, 16, 65, 195, 117, 74, 114, 2, 178, 199, 176, 167, 43, 231>>) @@
    (<<104, 105, 9, 0, 0, 0, 0, 0, 0, 0>> :> <<220, 198, 16, 21, 115, 180, 40, 190, 102, 119, 207, 120, 170, 101, 147, 156, 184, 55, 70, 76, 70, 2, 199, 62, 192, 238, 166, 191, 147, 66, 28, 130>>) @@
    (<<104, 105, 10, 0, 0, 0, 0, 0, 0, 0>> :> <<226, 103, 107, 230, 146, 14, 39, 220, 15, 112, 155, 93, 170, 224, 70, 19, 133, 151, 250, 27, 225, 27, 33, 179, 185, 234, 73, 150, 16, 112, 86, 15>>) @@
    (<<104, 105, 11, 0, 0, 0, 0, 0, 0, 0>> :> <<252, 115, 120, 147, 185, 188, 13, 11, 83, 215, 10, 82, 192, 249, 143, 210, 13, 117, 59, 213, 191, 59, 124, 197, 156, 192, 166, 80, 25, 21, 215, 120>>) @@
    (<<104, 105, 12, 0, 0, 0, 0, 0, 0, 0>> :> <<3, 72, 141, 216, 172, 19, 112, 119, 36, 78, 143, 95, 255, 244, 251, 35, 172, 51, 36, 222, 186, 214, 29, 98, 238, 10, 254, 254, 124, 185, 49, 192>>) @@
    (<<104, 105, 13, 0, 0, 0, 0, 0, 0, 0>> :> <<74, 42, 48, 22, 142, 197, 199, 81, 50, 235, 167, 32, 125, 88, 238, 75, 0, 130, 199, 34, 112, 44, 82, 87, 129, 251, 52, 18, 95, 28, 67, 237>>) @@
    (<<104, 105, 14, 0, 0, 0, 0, 0, 0, 0>> :> <<160, 184, 156, 190, 246, 151, 143, 174, 176, 188, 152, 192, 148, 76, 71, 156, 251, 65, 127, 191, 166, 96, 233, 81, 192, 195, 85, 83, 170, 131, 87, 234>>) @@
    (<<104, 105, 15, 0, 0, 0, 0, 0, 0, 0>> :> <<117, 57, 186, 18, 15, 146, 211, 253, 203, 165, 122, 239, 111, 201, 76, 13, 240, 236, 102, 92, 61, 249, 18, 204, 244, 213, 61, 16, 0, 24, 44, 198>>) @@
    (<<103, 0, 0, 0, 0, 0, 0, 0, 0>> :> <<152, 203, 49, 28, 222, 19, 186, 160, 156, 68, 96, 89, 130, 161, 133, 163, 141, 117, 213, 83, 164, 149, 18, 195, 42, 77, 247, 148, 46, 228, 148, 39>>) @@
    (<<103, 1, 0, 0, 0, 0, 0, 0, 0>> :> <<198, 107, 187, 23, 113, 26, 248, 202, 185, 110, 188, 20, 204, 59, 69, 130, 35, 77, 38, 220, 49, 207, 75, 231, 121, 39, 145, 254, 190, 42, 234, 203>>) @@
    (<<103, 2, 0, 0, 0, 0, 0, 0, 0>> :> <<175, 50, 6, 143, 44, 195, 96, 27, 201, 5, 72, 118, 49, 53, 1, 15, 16, 152, 210, 75, 220, 212, 249, 242, 103, 226, 106, 39, 206, 18, 212, 193>>) @@
    (<<103, 3, 0, 0, 0, 0, 0, 0, 0>> :> <<120, 66, 189, 204, 200, 98, 215, 136, 171, 200, 211, 22, 163, 87, 131, 64, 46, 118, 75, 19, 179, 194, 226, 94, 22, 7, 43, 254, 205, 111, 88, 62>>) @@
    (<<103, 4, 0, 0, 0, 0, 0, 0, 0>> :> <<157, 79, 114, 34, 138, 40, 225, 121, 52, 162, 92, 200, 241, 247, 41, 141, 152, 171, 151, 189, 167, 59, 85, 36, 110, 254, 77, 74, 101, 13, 92, 59>>) @@
    (<<103, 5, 0, 0, 0, 0, 0, 0, 0>> :> <<202, 238, 178, 145, 164, 58, 254, 226, 96, 196, 69, 108, 212, 59, 176, 208, 214, 51, 212, 140, 74, 77, 143, 121, 131, 15, 194, 216, 138, 79, 51, 137>>) @@
    (<<103, 6, 0, 0, 0, 0, 0, 0, 0>> :> <<154, 33, 220, 131, 153, 143, 21, 184, 74, 193, 29, 208, 169, 199, 57, 70, 125, 104, 174, 115, 199, 152, 145, 121, 222, 53, 243, 119, 145, 126, 43, 250>>) @@
    (<<103, 7, 0, 0, 0, 0, 0, 0, 0>> :> <<97, 179, 87, 76, 145, 185, 1, 202, 55, 121, 97, 231, 222, 78, 253, 100, 10, 49, 33, 32, 79, 2, 83, 210, 51, 67, 99, 41, 13, 76, 174, 84>>) @@
    (<<103, 8, 0, 0, 0, 0, 0, 0, 0>> :> <<160, 30, 51, 37, 33, 122, 0, 223, 25, 229, 246, 75, 180, 199, 146, 76, 154, 140, 61, 85, 155, 244, 69, 148, 68, 50, 163, 98, 160, 227, 78, 126>>) @@
    (<<103, 9, 0, 0, 0, 0, 0, 0, 0>> :> <<192, 75, 82, 175, 37, 232, 193, 195, 147, 3, 146, 173, 61, 0, 101, 116, 22, 202, 101, 42, 123, 60, 102, 71, 37, 35, 67, 106, 152, 89, 84, 25>>) @@
    (<<103, 10, 0, 0, 0, 0, 0, 0, 0>> :> <<47, 232, 131, 196, 195, 84, 69, 247, 15, 143, 90, 104, 208, 34, 118, 137, 178, 47, 196, 227, 211, 178, 52, 122, 88, 40, 31, 5, 238, 15, 204, 108>>) @@
    (<<103, 11, 0, 0, 0, 0, 0, 0, 0>> :> <<207, 163, 180, 110, 89, 240, 109, 213, 123, 123, 233, 248, 12, 214, 74, 110, 198, 71, 201, 1, 56, 211, 52, 80, 96, 8, 27, 78, 213, 94, 202, 52>>) @@
    (<<103, 12, 0, 0, 0, 0, 0, 0, 0>> :> <<96, 237, 78, 51, 15, 240, 54, 83, 110, 199, 241, 75, 221, 214, 30, 57, 186, 214, 149, 216, 181, 164, 205, 193, 184, 129, 52, 118, 200, 145, 198, 218>>) @@
    (<<103, 13, 0, 0, 0, 0, 0, 0, 0>> :> <<205, 191, 83, 62, 216, 192, 1, 176, 131, 137, 175, 94, 217, 201, 56, 225, 192, 128, 83, 196, 64, 108, 64, 42, 116, 212, 100, 81, 42, 59, 91, 144>>) @@
    (<<103, 14, 0, 0, 0, 0, 0, 0, 0>> :> <<95, 131, 198, 184, 41, 203, 36, 172, 80, 25, 178, 96, 137, 148, 15, 16, 163, 184, 142, 152, 182, 216, 79, 252, 57, 48, 163, 112, 216, 174, 181, 5>>) @@
    (<<103, 15, 0, 0, 0, 0, 0, 0, 0>> :> <<102, 245, 204, 7, 30, 109, 28, 150, 72, 219, 35, 255, 60, 18, 235, 74, 159, 15, 241, 128, 93, 106, 93, 156, 167, 183, 194, 186, 12, 215, 168, 89>>)

\* "zero2" stands for a caller-supplied stub hash.Hash whose Sum is 2 zero
\* bytes (used only where an all-zero digest is needed)
HashSum(h, bytes) ==
    CASE h = "sha512" -> Sha512Digests[bytes]
      [] h = "sha256" -> Sha256Digests[bytes]
      [] h = "zero2"  -> <<0, 0>>

\* digest length in bytes of each getter's hash
DigestSize(h) == CASE h = "sha512" -> 64 [] h = "sha256" -> 32 [] h = "zero2" -> 2

\* Worker.ValidatePoWork(pow) with the worker's getHash and difficulty
ValidatePoWork(h, difficulty, msg, proof) ==
    ValidateSum(HashSum(h, msg \o LE64(proof)), difficulty)

\* ------------------------------------------------------------------
\* Worker state and asynchronous searches
\* ------------------------------------------------------------------

Msgs == {<<104, 105>>, <<103>>}
DiffVals == {0, 1, 10, 17}
WaitVals == {-1, 0, 5000}
MaxEl == 2
MaxNonce == 6
ShareCap == 1
MaxSets == 2

VARIABLES difficulty, maxWait, getHash, lastSet, nsets, task, prepChan, shared, sent, recvd
svars == <<difficulty, maxWait, getHash, lastSet, nsets, task, prepChan, shared, sent, recvd>>
vars == <<vsum, vdiff, vres, difficulty, maxWait, getHash, lastSet, nsets, task, prepChan, shared, sent, recvd>>

\* the searches (goroutines) of the behaviour, one record per submission
Tasks == DOMAIN task

IdleTask == [pc |-> "unsub", kind |-> "none", msg |-> <<>>, nonce |-> 0, iters |-> 0,
             el |-> 0, fired |-> FALSE, armed |-> 0, res |-> "none",
             fd |-> 0, fh |-> "none", subDiff |-> 0, chg |-> FALSE]

\* NewWorker: SHA512, 10 bit difficulty, 5 second timeout
NewWorker ==
    /\ difficulty = 10
    /\ getHash = "sha512"
    /\ maxWait = 5000

NoSearches(ids) ==
    /\ lastSet = [op |-> "none", arg |-> 0, ret |-> "nil"]
    /\ nsets = 0
    /\ task = [t \in ids |-> IdleTask]
    /\ prepChan = [t \in ids |-> [buf |-> <<>>, closed |-> FALSE]]
    /\ shared = <<>>
    /\ sent = [t \in ids |-> 0]
    /\ recvd = [t \in ids |-> 0]

\* Spec follows one search against the worker's configuration changes;
\* concurrent searches are the subject of SpecConc
SoloSearch == {1}

InitSearch == NewWorker /\ NoSearches(SoloSearch)

Running(t) == task[t].pc \in {"eval", "chk", "sel"}

MarkChanged == [t \in Tasks |-> IF Running(t) THEN [task[t] EXCEPT !.chg = TRUE] ELSE task[t]]

\* variant: an invalid difficulty is rejected without being stored
SetDifficultyRejects ==
    /\ nsets < MaxSets
    /\ \E n \in DiffVals :
        /\ difficulty' = IF n <= 0 THEN difficulty ELSE n
        /\ lastSet' = [op |-> "difficulty", arg |-> n, ret |-> IF n <= 0 THEN "err" ELSE "nil"]
        /\ nsets' = nsets + 1
        /\ task' = MarkChanged
        /\ UNCHANGED <<maxWait, getHash, prepChan, shared, sent, recvd, vvars>>

\* SetDifficulty: stores the value, then returns an error if it is <= 0
SetDifficulty ==
    /\ nsets < MaxSets
    /\ \E n \in DiffVals :
        /\ difficulty' = n
        /\ lastSet' = [op |-> "difficulty", arg |-> n, ret |-> IF n <= 0 THEN "err" ELSE "nil"]
        /\ nsets' = nsets + 1
        /\ task' = MarkChanged
        /\ UNCHANGED <<maxWait, getHash, prepChan, shared, sent, recvd, vvars>>

\* SetTimeout: stores the value, then returns an error if it is < 0
SetTimeout ==
    /\ nsets < MaxSets
    /\ \E ms \in WaitVals :
        /\ maxWait' = ms
        /\ lastSet' = [op |-> "timeout", arg |-> ms, ret |-> IF ms < 0 THEN "err" ELSE "nil"]
        /\ nsets' = nsets + 1
        /\ UNCHANGED <<difficulty, getHash, task, prepChan, shared, sent, recvd, vvars>>

\* SetHashGetter: stores the getter
SetHashGetter ==
    /\ nsets < MaxSets
    /\ \E h \in HashGetters :
        /\ getHash' = h
        /\ lastSet' = [op |-> "hash", arg |-> 0, ret |-> "nil"]
        /\ nsets' = nsets + 1
        /\ task' = MarkChanged
        /\ UNCHANGED <<difficulty, maxWait, prepChan, shared, sent, recvd, vvars>>

NextFree(t) == task[t].pc = "unsub" /\ \A u \in 1..(t - 1) : task[u].pc # "unsub"

Submit(t, m, kind) ==
    /\ NextFree(t)
    /\ task' = [task EXCEPT ![t] = [IdleTask EXCEPT !.pc = "pending", !.kind = kind, !.msg = m,
                                    !.subDiff = difficulty]]
    /\ UNCHANGED <<difficulty, maxWait, getHash, lastSet, nsets, prepChan, shared, sent, recvd, vvars>>

\* PrepareProof: makes a 1-buffered channel, spawns the goroutine, returns
PrepareProof == \E t \in Tasks, m \in Msgs : Submit(t, m, "prep")

\* SendProofToChannel: spawns the goroutine that sends on the caller's channel
SendProofToChannel == \E t \in Tasks, m \in Msgs : Submit(t, m, "send")

\* variant: the search starts at nonce 1
StartProofNonceOne ==
    \E t \in Tasks :
        /\ task[t].pc = "pending"
        /\ task' = [task EXCEPT ![t] = [@ EXCEPT !.pc = "eval", !.nonce = 1, !.iters = 0,
                                        !.el = 0, !.fired = FALSE, !.armed = maxWait]]
        /\ UNCHANGED <<difficulty, maxWait, getHash, lastSet, nsets, prepChan, shared, sent, recvd, vvars>>

\* DoProofFor entry: toR with proof 0, iterations 0, and
\* time.After(maxWait ms) armed with the current maxWait
StartProof ==
    \E t \in Tasks :
        /\ task[t].pc = "pending"
        /\ task' = [task EXCEPT ![t] = [@ EXCEPT !.pc = "eval", !.nonce = 0, !.iters = 0,
                                        !.el = 0, !.fired = FALSE, !.armed = maxWait]]
        /\ UNCHANGED <<difficulty, maxWait, getHash, lastSet, nsets, prepChan, shared, sent, recvd, vvars>>

\* ValidatePoWork's first part (lines 160-173): reads the worker's getHash,
\* hashes msg || LE64(proof); the digest is fixed by the getter read here
EvalHash ==
    \E t \in Tasks :
        /\ task[t].pc = "eval"
        /\ task' = [task EXCEPT ![t] = [@ EXCEPT !.pc = "chk", !.fh = getHash]]
        /\ UNCHANGED <<difficulty, maxWait, getHash, lastSet, nsets, prepChan, shared, sent, recvd, vvars>>

\* variant: the nonce is incremented before the success check breaks
EvalCandidateOffByOne ==
    \E t \in Tasks :
        /\ task[t].pc = "chk"
        /\ LET r == ValidateSum(HashSum(task[t].fh, task[t].msg \o LE64(task[t].nonce)), difficulty) IN
           task' = [task EXCEPT ![t] =
                      IF r.err # "nil" THEN [@ EXCEPT !.pc = "ret", !.res = r.err, !.fd = difficulty]
                      ELSE IF r.ok THEN [@ EXCEPT !.pc = "ret", !.res = "proof", !.nonce = @ + 1,
                                                  !.fd = difficulty]
                      ELSE [@ EXCEPT !.pc = "sel", !.iters = @ + 1, !.nonce = @ + 1]]
        /\ UNCHANGED <<difficulty, maxWait, getHash, lastSet, nsets, prepChan, shared, sent, recvd, vvars>>

\* ValidatePoWork's second part (lines 175-192): reads the worker's
\* difficulty and scans the digest; then DoProofFor's loop body (133-142):
\* error -> return it; true -> return toR; else increment requiredIterations
\* and proof.
EvalCandidate ==
    \E t \in Tasks :
        /\ task[t].pc = "chk"
        /\ LET r == ValidateSum(HashSum(task[t].fh, task[t].msg \o LE64(task[t].nonce)), difficulty) IN
           task' = [task EXCEPT ![t] =
                      IF r.err # "nil" THEN [@ EXCEPT !.pc = "ret", !.res = r.err, !.fd = difficulty]
                      ELSE IF r.ok THEN [@ EXCEPT !.pc = "ret", !.res = "proof", !.fd = difficulty]
                      ELSE [@ EXCEPT !.pc = "sel", !.iters = @ + 1, !.nonce = @ + 1]]
        /\ UNCHANGED <<difficulty, maxWait, getHash, lastSet, nsets, prepChan, shared, sent, recvd, vvars>>

\* variant: the timeout channel is never consulted
SelectTimeoutNoFire ==
    \E t \in Tasks :
        /\ task[t].pc = "sel"
        /\ task[t].nonce <= MaxNonce
        /\ task' = [task EXCEPT ![t] = [@ EXCEPT !.pc = "eval"]]
        /\ UNCHANGED <<difficulty, maxWait, getHash, lastSet, nsets, prepChan, shared, sent, recvd, vvars>>

\* select on the timeout channel with a default case: a fired timer ends
\* the search, otherwise the loop goes on with the next candidate. The
\* code has no limit on the candidates; the model caps the nonce at
\* MaxNonce (its hash tables cover nonces 0..15), after which the search
\* can only wait for its timer.
SelectTimeout ==
    \E t \in Tasks :
        /\ task[t].pc = "sel"
        /\ IF task[t].fired
           THEN task' = [task EXCEPT ![t] = [@ EXCEPT !.pc = "ret", !.res = "timeout"]]
           ELSE /\ task[t].nonce <= MaxNonce
                /\ task' = [task EXCEPT ![t] = [@ EXCEPT !.pc = "eval"]]
        /\ UNCHANGED <<difficulty, maxWait, getHash, lastSet, nsets, prepChan, shared, sent, recvd, vvars>>

\* one millisecond of wall-clock time passes for a running search, at any
\* point of its loop: the code tries any number of candidates in a
\* millisecond, and the goroutine may be descheduled for any time. el is
\* counted up to the deadline (armed) and at most MaxEl
Tick ==
    \E t \in Tasks :
        /\ Running(t)
        /\ task[t].el < MaxEl
        /\ task[t].el < task[t].armed
        /\ task' = [task EXCEPT ![t] = [@ EXCEPT !.el = @ + 1]]
        /\ UNCHANGED <<difficulty, maxWait, getHash, lastSet, nsets, prepChan, shared, sent, recvd, vvars>>

\* variant: the deadline follows the worker's current maxWait
TimerFireCurrentWait ==
    \E t \in Tasks :
        /\ Running(t)
        /\ ~task[t].fired
        /\ task[t].el >= maxWait
        /\ task' = [task EXCEPT ![t] = [@ EXCEPT !.fired = TRUE]]
        /\ UNCHANGED <<difficulty, maxWait, getHash, lastSet, nsets, prepChan, shared, sent, recvd, vvars>>

\* the runtime delivers on the time.After channel once the duration elapsed
TimerFire ==
    \E t \in Tasks :
        /\ Running(t)
        /\ ~task[t].fired
        /\ task[t].el >= task[t].armed
        /\ task' = [task EXCEPT ![t] = [@ EXCEPT !.fired = TRUE]]
        /\ UNCHANGED <<difficulty, maxWait, getHash, lastSet, nsets, prepChan, shared, sent, recvd, vvars>>

\* variant: the goroutine reports the message of another submission
OutcomeSwapped(t) ==
    [src |-> t, res |-> task[t].res,
     pow |-> IF task[t].res = "proof"
             THEN <<[msg |-> task[(t % Cardinality(Tasks)) + 1].msg,
                     nonce |-> task[t].nonce, iters |-> task[t].iters]>>
             ELSE <<>>]

\* the struct{*PoWork; error} value a goroutine sends: the *PoWork is a
\* one-element sequence, or <<>> for nil; src is a ghost tag
Outcome(t) ==
    [src |-> t, res |-> task[t].res,
     pow |-> IF task[t].res = "proof"
             THEN <<[msg |-> task[t].msg, nonce |-> task[t].nonce, iters |-> task[t].iters]>>
             ELSE <<>>]

\* variant: PrepareProof's goroutine sends again instead of closing
SendOutcomeTwice ==
    \E t \in Tasks :
        /\ task[t].pc = "ret"
        /\ IF task[t].kind = "prep"
           THEN /\ Len(prepChan[t].buf) < 1
                /\ prepChan' = [prepChan EXCEPT ![t].buf = Append(@, Outcome(t))]
                /\ UNCHANGED <<task, shared>>
           ELSE /\ Len(shared) < ShareCap
                /\ shared' = Append(shared, Outcome(t))
                /\ task' = [task EXCEPT ![t].pc = "exit"]
                /\ UNCHANGED prepChan
        /\ sent' = [sent EXCEPT ![t] = @ + 1]
        /\ UNCHANGED <<difficulty, maxWait, getHash, lastSet, nsets, recvd, vvars>>

\* the goroutine sends {r, e} on toR (PrepareProof) or on c (SendProofToChannel)
SendOutcome ==
    \E t \in Tasks :
        /\ task[t].pc = "ret"
        /\ IF task[t].kind = "prep"
           THEN /\ Len(prepChan[t].buf) < 1
                /\ prepChan' = [prepChan EXCEPT ![t].buf = Append(@, Outcome(t))]
                /\ task' = [task EXCEPT ![t].pc = "close"]
                /\ UNCHANGED shared
           ELSE /\ Len(shared) < ShareCap
                /\ shared' = Append(shared, Outcome(t))
                /\ task' = [task EXCEPT ![t].pc = "exit"]
                /\ UNCHANGED prepChan
        /\ sent' = [sent EXCEPT ![t] = @ + 1]
        /\ UNCHANGED <<difficulty, maxWait, getHash, lastSet, nsets, recvd, vvars>>

\* close(toR) in PrepareProof's goroutine
CloseHandle ==
    \E t \in Tasks :
        /\ task[t].pc = "close"
        /\ prepChan' = [prepChan EXCEPT ![t].closed = TRUE]
        /\ task' = [task EXCEPT ![t].pc = "exit"]
        /\ UNCHANGED <<difficulty, maxWait, getHash, lastSet, nsets, shared, sent, recvd, vvars>>

\* the caller receives from a PrepareProof handle
RecvHandle ==
    \E t \in Tasks :
        /\ prepChan[t].buf # <<>>
        /\ prepChan' = [prepChan EXCEPT ![t].buf = Tail(@)]
        /\ recvd' = [recvd EXCEPT ![t] = @ + 1]
        /\ UNCHANGED <<difficulty, maxWait, getHash, lastSet, nsets, task, shared, sent, vvars>>

\* the caller receives from the shared channel
RecvShared ==
    /\ shared # <<>>
    /\ shared' = Tail(shared)
    /\ recvd' = [recvd EXCEPT ![Head(shared).src] = @ + 1]
    /\ UNCHANGED <<difficulty, maxWait, getHash, lastSet, nsets, task, prepChan, sent, vvars>>

FixedV ==
    /\ vsum = <<0, 0>>
    /\ vdiff = 0
    /\ vres = [ok |-> FALSE, err |-> "unset"]

SearchSteps ==
    \/ StartProof \/ EvalHash \/ EvalCandidate \/ SelectTimeout \/ Tick \/ TimerFire
    \/ SendOutcome \/ CloseHandle \/ RecvHandle \/ RecvShared

\* a worker used by one caller: configuration changes and searches interleave
Init == FixedV /\ InitSearch

Next ==
    \/ SetDifficulty \/ SetTimeout \/ SetHashGetter
    \/ PrepareProof \/ SendProofToChannel
    \/ SearchSteps

Spec == Init /\ [][Next]_vars

\* a worker configured before any submission (SetDifficulty, SetTimeout) on
\* which several searches run concurrently: either difficulty 1 with the
\* default 5 s timeout, or difficulty 513 (no SHA-512 candidate can meet
\* it) with a 1 ms timeout
\* the two concurrent searches (they share only the result channel)
ConcIds == {1, 2}

ConcConfigs == {[d |-> 1, w |-> 5000], [d |-> 513, w |-> 1]}

InitConc ==
    /\ FixedV
    /\ \E c \in ConcConfigs : difficulty = c.d /\ maxWait = c.w
    /\ getHash = "sha512"
    /\ NoSearches(ConcIds)

NextConc == PrepareProof \/ SendProofToChannel \/ SearchSteps

\* goroutines are scheduled fairly and time passes
Fairness ==
    /\ WF_vars(StartProof) /\ WF_vars(EvalHash) /\ WF_vars(EvalCandidate) /\ WF_vars(SelectTimeout)
    /\ WF_vars(Tick) /\ WF_vars(TimerFire) /\ WF_vars(SendOutcome)
    /\ WF_vars(CloseHandle) /\ WF_vars(RecvHandle) /\ WF_vars(RecvShared)

SpecConc == InitConc /\ [][NextConc]_vars /\ Fairness

InitV ==
    /\ vsum \in [1..DigestLenV -> DigestBytes]
    /\ vdiff \in 0..MaxDiffV
    /\ vres = [ok |-> FALSE, err |-> "unset"]
    /\ InitSearch

CheckSum ==
    /\ vres.err = "unset"
    /\ vres' = ValidateSum(vsum, vdiff)
    /\ UNCHANGED <<vsum, vdiff>>
    /\ UNCHANGED svars

NextV == CheckSum

SpecV == InitV /\ [][NextV]_vars

\* C1: for 0 <= N <= bit length of the digest, ValidatePoWork returns
\* (true, nil) iff the first N bits of the digest are zero (N = 0: always valid).
C1_Validity ==
    (vres.err # "unset" /\ vdiff <= 8 * Len(vsum))
        => ((vres.ok /\ vres.err = "nil") <=> FirstBitsZero(vsum, vdiff))

\* C2 (original): for N above the bit length, ValidatePoWork always reports
\* the overrun error and never a plain false.
C2_AlwaysOverrun ==
    (vres.err # "unset" /\ vdiff > 8 * Len(vsum)) => vres.err = "overrun"

\* C2 (amended): for N above the bit length, the overrun error is reported
\* exactly when every digest bit is zero; otherwise (false, nil) is returned.
C2_OverrunIffAllZero ==
    (vres.err # "unset" /\ vdiff > 8 * Len(vsum))
        => /\ ~vres.ok
           /\ (vres.err = "overrun" <=> FirstBitsZero(vsum, 8 * Len(vsum)))

C2_Witness ==
    vres.err = "overrun" /\ vdiff > 8 * Len(vsum)


\* ------------------------------------------------------------------
\* Searches on a fixed configuration, with fair scheduling of the
\* goroutines and of the clock, for the timeout's progress
\* ------------------------------------------------------------------

LiveDiffs == {1, 513}
LiveWaits == {1, 2}
LiveGetters == {"sha512", "sha256", "zero2"}

InitLive ==
    /\ FixedV
    /\ difficulty \in LiveDiffs
    /\ getHash \in LiveGetters
    /\ maxWait \in LiveWaits
    /\ NoSearches(SoloSearch)

NextLive == PrepareProof \/ SendProofToChannel \/ SearchSteps

SpecLive == InitLive /\ [][NextLive]_vars /\ Fairness

\* ------------------------------------------------------------------
\* Claims on searches
\* ------------------------------------------------------------------

Returned(t) == task[t].pc \in {"ret", "close", "exit"}

ValidOk(h, d, msg, n) == ValidatePoWork(h, d, msg, n) = [ok |-> TRUE, err |-> "nil"]

\* C3 (original): with timeoutMillis = 0 a search never returns the
\* timeout error.
C3_NoTimeoutAtZero ==
    \A t \in Tasks : (Returned(t) /\ task[t].armed = 0) => task[t].res # "timeout"

\* C4 (original): a proof returned by DoProofFor passes ValidatePoWork on
\* the same worker (with the worker's current configuration).
C4_RoundTrip ==
    \A t \in Tasks : (Returned(t) /\ task[t].res = "proof")
        => ValidOk(getHash, difficulty, task[t].msg, task[t].nonce)

\* C4 (amended): a returned proof passes ValidatePoWork whenever the
\* worker's difficulty and hash getter are those with which the search
\* evaluated its final candidate.
C4_RoundTripSameConfig ==
    \A t \in Tasks : (Returned(t) /\ task[t].res = "proof"
                      /\ difficulty = task[t].fd /\ getHash = task[t].fh)
        => ValidOk(getHash, difficulty, task[t].msg, task[t].nonce)

C4_Witness ==
    \E t \in Tasks : Returned(t) /\ task[t].res = "proof"
                     /\ difficulty = task[t].fd /\ getHash = task[t].fh

\* C7 (original): every candidate a search evaluates uses the difficulty in
\* force when the search was submitted.
C7_SnapshotAtSubmission ==
    \A t \in Tasks : (Returned(t) /\ task[t].res \in {"proof", "overrun"})
        => task[t].fd = task[t].subDiff

\* C7 (amended): difficulty and hash getter are re-read for each candidate,
\* so a returned proof is valid for the configuration of its final
\* evaluation; the timeout is the maxWait read when DoProofFor started, and
\* a search only times out once that much time has elapsed.
C7_TimeoutArmedAtStart ==
    \A t \in Tasks :
        /\ (Returned(t) /\ task[t].res = "timeout") => task[t].el >= task[t].armed
        /\ (Returned(t) /\ task[t].res = "proof")
               => ValidOk(task[t].fh, task[t].fd, task[t].msg, task[t].nonce)

C7_Witness ==
    \E t \in Tasks : Returned(t) /\ task[t].res = "timeout" /\ maxWait # task[t].armed

\* C8: SetDifficulty / SetTimeout store the value even when they return the
\* invalid-configuration error (difficulty <= 0, timeout < 0).
C8_SettersStore ==
    /\ lastSet.op = "difficulty"
           => (difficulty = lastSet.arg /\ (lastSet.ret = "err" <=> lastSet.arg <= 0))
    /\ lastSet.op = "timeout"
           => (maxWait = lastSet.arg /\ (lastSet.ret = "err" <=> lastSet.arg < 0))

C8_Witness == lastSet.op = "difficulty" /\ lastSet.ret = "err" /\ difficulty = 0

\* C10 (original): a proof's iteration count equals its nonce, and the nonce
\* is the least one whose candidate is valid.
C10_LeastNonce ==
    \A t \in Tasks : (Returned(t) /\ task[t].res = "proof")
        => /\ task[t].iters = task[t].nonce
           /\ \A n \in 0..(task[t].nonce - 1) : ~ValidOk(task[t].fh, task[t].fd, task[t].msg, n)

\* C10 (amended): the iteration count equals the nonce; the nonce is the
\* least valid one when difficulty and hash getter were not changed while
\* the search ran.
C10_LeastNonceStable ==
    \A t \in Tasks : (Returned(t) /\ task[t].res = "proof")
        => /\ task[t].iters = task[t].nonce
           /\ ~task[t].chg => \A n \in 0..(task[t].nonce - 1) :
                                  ~ValidOk(task[t].fh, task[t].fd, task[t].msg, n)

C10_Witness ==
    \E t \in Tasks : Returned(t) /\ task[t].res = "proof" /\ task[t].nonce > 0 /\ ~task[t].chg

\* C5: each submission delivers exactly one outcome: at most one value is
\* ever sent for it, a PrepareProof handle is closed only after its one
\* value, and every submitted search eventually has its one value sent and
\* received (on its handle, or on the shared channel several searches use).
C5_SingleOutcome ==
    /\ [](\A t \in Tasks :
            /\ sent[t] <= 1
            /\ recvd[t] <= sent[t]
            /\ task[t].pc \in {"unsub", "pending", "eval", "chk", "sel", "ret"} => sent[t] = 0
            /\ prepChan[t].closed => (task[t].kind = "prep" /\ sent[t] = 1))
    /\ \A t \in ConcIds :
           (task[t].pc = "pending")
               ~> (sent[t] = 1 /\ recvd[t] = 1
                   /\ (task[t].kind = "prep" => prepChan[t].closed))

C5_Witness ==
    \A t \in Tasks : task[t].pc = "exit" /\ task[t].kind = "send" /\ recvd[t] = 1

\* the values held in the channels: the PrepareProof handles and the shared one
InFlight ==
    {shared[i] : i \in DOMAIN shared} \cup
    UNION {{prepChan[t].buf[i] : i \in DOMAIN prepChan[t].buf} : t \in Tasks}

\* C6 (original): K concurrent searches yield K completions, each a proof
\* valid for the message of its own submission.
C6_AllProofs ==
    /\ \A t \in Tasks : task[t].pc = "exit"
           => (task[t].res = "proof" /\ ValidOk(getHash, difficulty, task[t].msg, task[t].nonce))
    /\ \A o \in InFlight : o.pow # <<>> /\ o.pow[1].msg = task[o.src].msg

\* C6 (amended): every submitted search eventually yields exactly one
\* completion, which is either a proof carrying its own message and valid
\* for it, or a failure (timeout or overrun) with a nil proof.
C6_OwnOutcomes ==
    /\ [](\A t \in Tasks : sent[t] <= 1)
    /\ [](\A o \in InFlight :
            /\ o.res \in {"proof", "timeout", "overrun"}
            /\ o.res = "proof" => /\ Len(o.pow) = 1
                                  /\ o.pow[1].msg = task[o.src].msg
                                  /\ ValidOk(getHash, difficulty, o.pow[1].msg, o.pow[1].nonce)
            /\ o.res # "proof" => o.pow = <<>>)
    /\ \A t \in ConcIds : (task[t].pc = "pending") ~> (sent[t] = 1)

C6_Witness ==
    /\ \A t \in Tasks : task[t].pc = "exit" /\ task[t].res = "proof"
    /\ task[1].msg # task[2].msg

\* no candidate whatever its nonce can meet the difficulty: it exceeds the
\* digest's bit length (the scan returns false at a 1 bit, or overruns)
Unreachable(t) == difficulty > 8 * DigestSize(getHash)

\* C9: with a positive timeout and a difficulty no candidate reaches, the
\* search ends with the timeout error (or at once with the overrun error
\* reported by ValidatePoWork) and never returns a proof.
C9_TimesOut ==
    /\ \A t \in SoloSearch :
           (task[t].pc = "eval" /\ task[t].armed > 0 /\ Unreachable(t))
               ~> (Returned(t) /\ task[t].res \in {"timeout", "overrun"})
    /\ [](\A t \in Tasks : (task[t].armed > 0 /\ Unreachable(t) /\ Returned(t))
              => task[t].res # "proof")
    /\ [][\A t \in SoloSearch :
            (task[t].pc = "chk" /\ task'[t].res = "overrun")
                => (task'[t].pc = "ret" /\ task'[t].nonce = task[t].nonce)]_vars
    /\ [](\A t \in SoloSearch : task[t].res = "overrun" => Returned(t))

C9_Witness ==
    \E t \in Tasks : Returned(t) /\ task[t].res = "timeout" /\ task[t].armed > 0 /\ Unreachable(t)

====
